---- MODULE Spec2Model ----
(***************************************************************************)
(* A model of gio/inotify/inotify-helper.c: the subscription lifecycle     *)
(* (_ih_startup, _ih_sub_add, _ih_sub_cancel), the shared lock             *)
(* inotify_lock, and the translation of raw inotify events into            *)
(* GFileMonitor events (ih_event_callback, ih_not_missing_callback,        *)
(* ih_mask_to_EventFlags, _ih_fullpath_from_event).                        *)
(*                                                                         *)
(* Three specifications share the variables:                               *)
(*   Spec     - threads calling the public functions, the event reader     *)
(*              and the missing-list scanner, interleaved statement by     *)
(*              statement around G_LOCK / G_UNLOCK;                        *)
(*   SpecT    - the translator as a function of one raw event, with the    *)
(*              event, the subscription and the watch table drawn in Init; *)
(*   SpecFair - Spec under fair scheduling of the threads.                 *)
(***************************************************************************)
EXTENDS Integers, Sequences, FiniteSets, TLC

VARIABLES
  lock,          \* inotify_lock: the thread holding it, or NoThread
  initialized,   \* static gboolean initialized of _ih_startup
  result,        \* static gboolean result of _ih_startup
  pc,            \* per thread: the statement it is at
  arg,           \* per thread: the subscription its current call is about
  ret,           \* per thread: the value its last completed call returned
  late,          \* per thread: it is in an _ih_startup issued after one had returned TRUE
  sw,            \* per thread: the test of its current call: _ip_start_watching (sub) in add, !sub->cancelled in cancel
  cancelled,     \* per subscription: sub->cancelled
  watched,       \* the subscriptions inotify-path.c holds (actively watched)
  missing,       \* the subscriptions inotify-missing.c holds (missing list)
  event_cb,      \* the callback _ip_startup registered, or NULL
  missing_cb,    \* the callback _im_startup registered, or NULL
  calls,         \* counters of the calls made into the collaborators
  cancel_ret,    \* per subscription: some _ih_sub_cancel on it has returned
  reappeared,    \* per subscription: times the missing scan found it again
  started,       \* some _ih_startup call has returned TRUE
  delivered,     \* the sink calls made so far, oldest first
  tev,           \* SpecT: the raw event under translation
  tsub,          \* SpecT: the subscription it is delivered for
  tfile,         \* SpecT: the file_event argument
  twd,           \* SpecT: the watch table (wd -> directory path or NULL)
  tpc,           \* SpecT: "ready", then "done"
  tout           \* SpecT: the outcome of the translation

vars == <<lock, initialized, result, pc, arg, ret, late, sw, cancelled, 
          watched, missing, event_cb, missing_cb, calls, cancel_ret,
          reappeared, started, delivered, tev, tsub, tfile, twd, tpc, tout>>

lifeVars == <<lock, initialized, result, pc, arg, ret, late, sw, cancelled, 
              watched, missing, event_cb, missing_cb, calls, cancel_ret,
              reappeared, started, delivered>>

transVars == <<tev, tsub, tfile, twd, tpc, tout>>

(***************************************************************************)
(* Values.  A C pointer that may be NULL is a sequence of length 0 (NULL)  *)
(* or 1 (the value pointed to).                                            *)
(***************************************************************************)
NULL == <<>>

Ptr(x) == <<x>>

Deref(p) == p[1]

(***************************************************************************)
(* The inotify bit vocabulary (<sys/inotify.h>) as used by the translator. *)
(***************************************************************************)
IN_ACCESS == 1
IN_MODIFY == 2
IN_ATTRIB == 4
IN_CLOSE_WRITE == 8
IN_CLOSE_NOWRITE == 16
IN_OPEN == 32
IN_MOVED_FROM == 64
IN_MOVED_TO == 128
IN_CREATE == 256
IN_DELETE == 512
IN_DELETE_SELF == 1024
IN_MOVE_SELF == 2048
IN_UNMOUNT == 8192
IN_Q_OVERFLOW == 16384
IN_IGNORED == 32768
IN_ISDIR == 1073741824

(***************************************************************************)
(* GFileMonitorEvent (gio/gioenums.h) as returned by the translator.       *)
(***************************************************************************)
G_FILE_MONITOR_EVENT_CHANGED == 0
G_FILE_MONITOR_EVENT_CHANGES_DONE_HINT == 1
G_FILE_MONITOR_EVENT_DELETED == 2
G_FILE_MONITOR_EVENT_CREATED == 3
G_FILE_MONITOR_EVENT_ATTRIBUTE_CHANGED == 4
G_FILE_MONITOR_EVENT_UNMOUNTED == 6
G_FILE_MONITOR_EVENT_RENAMED == 8
G_FILE_MONITOR_EVENT_MOVED_IN == 9
G_FILE_MONITOR_EVENT_MOVED_OUT == 10

\* The value of `return -1' in ih_mask_to_EventFlags.
IgnoredEvent == 0 - 1

\* a & b on non-negative integers.
RECURSIVE BitAnd(_, _)
BitAnd(a, b) ==
  IF a = 0 \/ b = 0 THEN 0
  ELSE (a % 2) * (b % 2) + 2 * BitAnd(a \div 2, b \div 2)

\* a | b on non-negative integers.
BitOr(a, b) == a + b - BitAnd(a, b)

\* a & ~b on non-negative integers.
BitClear(a, b) == a - BitAnd(a, b)

\* IN_MOVE is (IN_MOVED_FROM | IN_MOVED_TO).
IN_MOVE == BitOr(IN_MOVED_FROM, IN_MOVED_TO)

(***************************************************************************)
(* The event translator.                                                   *)
(***************************************************************************)

\* One call of g_file_monitor_source_handle_event (source, event_type, child,
\* rename_to, other, event_time).  `other' is NULL or the path the GFile was
\* made for with g_file_new_for_path.
SinkCall(user_data, event_type, child, rename_to, other, event_time) ==
  [user_data |-> user_data, event_type |-> event_type, child |-> child,
   rename_to |-> rename_to, other |-> other, event_time |-> event_time]

\* The switch with the results of IN_MOVED_FROM and IN_MOVED_TO exchanged.
ih_mask_to_EventFlags_MoveSwapped(mask) ==
  LET m == BitClear(mask, IN_ISDIR) IN
  CASE m = IN_MODIFY -> G_FILE_MONITOR_EVENT_CHANGED
    [] m = IN_CLOSE_WRITE -> G_FILE_MONITOR_EVENT_CHANGES_DONE_HINT
    [] m = IN_ATTRIB -> G_FILE_MONITOR_EVENT_ATTRIBUTE_CHANGED
    [] m = IN_MOVE_SELF -> G_FILE_MONITOR_EVENT_DELETED
    [] m = IN_DELETE -> G_FILE_MONITOR_EVENT_DELETED
    [] m = IN_DELETE_SELF -> G_FILE_MONITOR_EVENT_DELETED
    [] m = IN_CREATE -> G_FILE_MONITOR_EVENT_CREATED
    [] m = IN_MOVED_FROM -> G_FILE_MONITOR_EVENT_MOVED_IN
    [] m = IN_MOVED_TO -> G_FILE_MONITOR_EVENT_MOVED_OUT
    [] m = IN_UNMOUNT -> G_FILE_MONITOR_EVENT_UNMOUNTED
    [] OTHER -> IgnoredEvent

\* The switch on the mask as it came, IN_ISDIR not cleared.
ih_mask_to_EventFlags_KeepsIsDir(mask) ==
  CASE mask = IN_MODIFY -> G_FILE_MONITOR_EVENT_CHANGED
    [] mask = IN_CLOSE_WRITE -> G_FILE_MONITOR_EVENT_CHANGES_DONE_HINT
    [] mask = IN_ATTRIB -> G_FILE_MONITOR_EVENT_ATTRIBUTE_CHANGED
    [] mask = IN_MOVE_SELF -> G_FILE_MONITOR_EVENT_DELETED
    [] mask = IN_DELETE -> G_FILE_MONITOR_EVENT_DELETED
    [] mask = IN_DELETE_SELF -> G_FILE_MONITOR_EVENT_DELETED
    [] mask = IN_CREATE -> G_FILE_MONITOR_EVENT_CREATED
    [] mask = IN_MOVED_FROM -> G_FILE_MONITOR_EVENT_MOVED_OUT
    [] mask = IN_MOVED_TO -> G_FILE_MONITOR_EVENT_MOVED_IN
    [] mask = IN_UNMOUNT -> G_FILE_MONITOR_EVENT_UNMOUNTED
    [] OTHER -> IgnoredEvent

\* The switch with IN_UNMOUNT answered like the delete family.
ih_mask_to_EventFlags_UnmountDeleted(mask) ==
  LET m == BitClear(mask, IN_ISDIR) IN
  CASE m = IN_MODIFY -> G_FILE_MONITOR_EVENT_CHANGED
    [] m = IN_CLOSE_WRITE -> G_FILE_MONITOR_EVENT_CHANGES_DONE_HINT
    [] m = IN_ATTRIB -> G_FILE_MONITOR_EVENT_ATTRIBUTE_CHANGED
    [] m = IN_MOVE_SELF -> G_FILE_MONITOR_EVENT_DELETED
    [] m = IN_DELETE -> G_FILE_MONITOR_EVENT_DELETED
    [] m = IN_DELETE_SELF -> G_FILE_MONITOR_EVENT_DELETED
    [] m = IN_CREATE -> G_FILE_MONITOR_EVENT_CREATED
    [] m = IN_MOVED_FROM -> G_FILE_MONITOR_EVENT_MOVED_OUT
    [] m = IN_MOVED_TO -> G_FILE_MONITOR_EVENT_MOVED_IN
    [] m = IN_UNMOUNT -> G_FILE_MONITOR_EVENT_DELETED
    [] OTHER -> IgnoredEvent

\* ih_mask_to_EventFlags: the IN_ISDIR bit is cleared, then the switch.
ih_mask_to_EventFlags(mask) ==
  LET m == BitClear(mask, IN_ISDIR) IN
  CASE m = IN_MODIFY -> G_FILE_MONITOR_EVENT_CHANGED
    [] m = IN_CLOSE_WRITE -> G_FILE_MONITOR_EVENT_CHANGES_DONE_HINT
    [] m = IN_ATTRIB -> G_FILE_MONITOR_EVENT_ATTRIBUTE_CHANGED
    [] m = IN_MOVE_SELF -> G_FILE_MONITOR_EVENT_DELETED
    [] m = IN_DELETE -> G_FILE_MONITOR_EVENT_DELETED
    [] m = IN_DELETE_SELF -> G_FILE_MONITOR_EVENT_DELETED
    [] m = IN_CREATE -> G_FILE_MONITOR_EVENT_CREATED
    [] m = IN_MOVED_FROM -> G_FILE_MONITOR_EVENT_MOVED_OUT
    [] m = IN_MOVED_TO -> G_FILE_MONITOR_EVENT_MOVED_IN
    [] m = IN_UNMOUNT -> G_FILE_MONITOR_EVENT_UNMOUNTED
    [] OTHER -> IgnoredEvent

\* What "%s" prints for a string argument: the string, and for a NULL
\* argument (undefined by the C standard) the text the C library substitutes.
PrintfS(p) == IF p = NULL THEN "(null)" ELSE Deref(p)

\* _ih_fullpath_from_event: "dir/filename", else "dir/event->name", else "dir/".
ih_fullpath_from_event(event, dirname, filename) ==
  IF filename # NULL THEN PrintfS(dirname) \o "/" \o Deref(filename)
  ELSE IF event.name # NULL THEN PrintfS(dirname) \o "/" \o Deref(event.name)
  ELSE PrintfS(dirname) \o "/"

\* _ip_get_path_for_wd over a watch table: the directory path registered for
\* the handle, or NULL when the handle is not in the table.
ip_get_path_for_wd(table, wd) ==
  IF wd \in DOMAIN table THEN table[wd] ELSE NULL

\* The outcome of one callback: the sink calls it made, in order, and how it
\* ended ("returned", "assert" for a failed g_assert, "crash" for a fault on a
\* NULL string).
Outcome(how, sinkcalls) == [how |-> how, sinkcalls |-> sinkcalls]

\* The rename branch with the two names exchanged.
ih_rename_call_Swapped(event, sub) ==
  SinkCall(sub.user_data, G_FILE_MONITOR_EVENT_RENAMED, Deref(event.pair).name,
           event.name, NULL, event.timestamp)

\* The rename branch of ih_event_callback: the sink call for a move whose pair
\* is on the same handle.
ih_rename_call(event, sub) ==
  SinkCall(sub.user_data, G_FILE_MONITOR_EVENT_RENAMED, event.name,
           Deref(event.pair).name, NULL, event.timestamp)

\* The move branch resolving the event's own handle instead of the pair's.
ih_pair_parent_dir_OwnWd(event, table) == ip_get_path_for_wd(table, event.wd)

\* The move branch of ih_event_callback with a pair: parent_dir is the path of
\* the pair's handle.
ih_pair_parent_dir(event, table) == ip_get_path_for_wd(table, Deref(event.pair).wd)

\* The assertion compiled out: nothing is tested.
ih_assert_not_file_event_Off(file_event) == TRUE

\* g_assert (!file_event) at the head of ih_event_callback: TRUE when the
\* assertion holds and the callback goes on, FALSE when it aborts.
ih_assert_not_file_event(file_event) == ~file_event

\* The last branch staying silent when the mask translates to -1.
ih_unpaired_calls_SkipsIgnored(event, sub) ==
  IF ih_mask_to_EventFlags(event.mask) = IgnoredEvent THEN <<>>
  ELSE <<SinkCall(sub.user_data, ih_mask_to_EventFlags(event.mask),
                  event.name, NULL, NULL, event.timestamp)>>

\* The last branch handing the sink "dirname/name" as the child.
ih_unpaired_calls_FullPath(event, sub) ==
  <<SinkCall(sub.user_data, ih_mask_to_EventFlags(event.mask),
             Ptr(ih_fullpath_from_event(event, Ptr(sub.dirname), NULL)),
             NULL, NULL, event.timestamp)>>

\* The last branch of ih_event_callback (the event is not of the move family):
\* the calls of the sink it makes, which is one call whatever the mask
\* translates to, with event->name as the child.
ih_unpaired_calls(event, sub) ==
  <<SinkCall(sub.user_data, ih_mask_to_EventFlags(event.mask),
             event.name, NULL, NULL, event.timestamp)>>

\* ih_event_callback (event, sub, file_event).  `table' is the watch table
\* _ip_get_path_for_wd reads; `ub' is how the build treats a NULL string
\* handed to "%s" ("text": prints (null); "crash": faults).
ih_event_callback(event, sub, file_event, table, ub) ==
  IF ~ih_assert_not_file_event(file_event) THEN Outcome("assert", <<>>)
  ELSE IF BitAnd(event.mask, IN_MOVE) # 0
  THEN IF event.pair # NULL /\ Deref(event.pair).wd = event.wd
       THEN Outcome("returned", <<ih_rename_call(event, sub)>>)
       ELSE IF event.pair # NULL
       THEN LET parent_dir == ih_pair_parent_dir(event, table)
                fullpath == ih_fullpath_from_event(Deref(event.pair), parent_dir, NULL)
            IN  IF parent_dir = NULL /\ ub = "crash"
                THEN Outcome("crash", <<>>)
                ELSE Outcome("returned",
                       <<SinkCall(sub.user_data, ih_mask_to_EventFlags(event.mask),
                                  event.name, NULL, Ptr(fullpath), event.timestamp)>>)
       ELSE Outcome("returned",
              <<SinkCall(sub.user_data, ih_mask_to_EventFlags(event.mask),
                         event.name, NULL, NULL, event.timestamp)>>)
  ELSE Outcome("returned", ih_unpaired_calls(event, sub))

\* ih_not_missing_callback without its call of the sink.
ih_not_missing_callback_Silent(sub, now) == Outcome("returned", <<>>)

\* ih_not_missing_callback (sub): one created event for sub->filename, stamped
\* with g_get_monotonic_time ().
ih_not_missing_callback(sub, now) ==
  Outcome("returned",
    <<SinkCall(sub.user_data, G_FILE_MONITOR_EVENT_CREATED, sub.filename,
               NULL, NULL, now)>>)

(***************************************************************************)
(* Threads, subscriptions, directories.                                    *)
(***************************************************************************)

\* Threads of the consumer, which call _ih_startup, _ih_sub_add, _ih_sub_cancel.
Consumers == {"t1", "t2"}

\* The thread of inotify-kernel.c that reads and processes kernel events.
Reader == "k"

\* The thread of inotify-missing.c that scans the missing list.
Scanner == "m"

Threads == Consumers \cup {Reader, Scanner}

NoThread == "none"

\* The subscription the consumer threads add and cancel.
Subs == {"s1"}

\* The value of a thread's subscription argument outside a call.
NoSub == "none"

Dirs == {"/tmp/watch", "/tmp/other"}

\* inotify_sub: dirname and filename are fixed when the subscription is made.
SubDirname(s) == "/tmp/watch"

SubFilename(s) == Ptr("foo.txt")

Sub(s) ==
  [dirname |-> SubDirname(s), filename |-> SubFilename(s),
   cancelled |-> cancelled[s], user_data |-> s]

\* The watch handle the kernel gives a directory.
WdOf(d) == IF d = "/tmp/watch" THEN 7 ELSE 8

WDs == {WdOf(d) : d \in Dirs}

\* The longest log of sink calls the model follows.
MaxDeliver == 2

\* The most times _ip_startup fails.
MaxFail == 1

(***************************************************************************)
(* The shared lock.                                                        *)
(***************************************************************************)

\* G_LOCK as a lock that does not wait: the caller takes the lock whoever
\* holds it.
G_LOCK_NoWait(t) == lock' = t

\* G_LOCK (inotify_lock): the caller waits until the lock is free, then holds it.
G_LOCK(t) == lock = NoThread /\ lock' = t

\* G_UNLOCK (inotify_lock).
G_UNLOCK(t) == lock' = NoThread

(***************************************************************************)
(* The collaborators: inotify-path.c (the watched registry and the watch   *)
(* table), inotify-missing.c (the missing list).                           *)
(***************************************************************************)

\* _ip_startup (cb): `ok' is whether the bring-up succeeds; on success the
\* event callback is registered.
ip_startup(cb, ok) ==
  /\ event_cb' = IF ok THEN Ptr(cb) ELSE event_cb
  /\ calls' = [calls EXCEPT !.ip_startup = @ + 1,
                            !.ip_startup_fail = IF ok THEN @ ELSE @ + 1]

\* _im_startup (cb): registers the reappearance callback.
im_startup(cb) ==
  /\ missing_cb' = Ptr(cb)
  /\ calls' = [calls EXCEPT !.im_startup = @ + 1]

\* _ip_start_watching (sub): `ok' is whether the directory can be watched now
\* (the value returned); when it can, the subscription joins the watched
\* registry.
ip_start_watching(s, ok) == watched' = IF ok THEN watched \cup {s} ELSE watched

\* _im_add (sub): the subscription joins the missing list.
im_add(s) == missing' = missing \cup {s}

\* _im_rm (sub): the subscription leaves the missing list, if it is on it.
im_rm(s) == missing' = missing \ {s}

\* _ip_stop_watching (sub): the subscription leaves the watched registry, if
\* it is in it.
ip_stop_watching(s) == watched' = watched \ {s}

\* The watch table of inotify-path.c: a handle has a path while a subscription
\* is watched on its directory.
WatchTable ==
  [w \in WDs |->
     IF \E s \in watched : WdOf(SubDirname(s)) = w
     THEN Ptr(CHOOSE d \in Dirs : WdOf(d) = w)
     ELSE NULL]

\* The subscriptions the event reader hands an event of handle wd to.
ip_subs_for_wd(wd) == {s \in watched : WdOf(SubDirname(s)) = wd}

(***************************************************************************)
(* _ih_startup                                                             *)
(***************************************************************************)

\* `return v;': the call is over; its argument and locals are gone.
Return(t, v) ==
  /\ ret' = [ret EXCEPT ![t] = Ptr(v)]
  /\ pc' = [pc EXCEPT ![t] = "idle"]
  /\ arg' = [arg EXCEPT ![t] = NoSub]
  /\ sw' = [sw EXCEPT ![t] = FALSE]
  /\ late' = [late EXCEPT ![t] = FALSE]

Goto(t, label) == pc' = [pc EXCEPT ![t] = label]

\* A consumer thread enters _ih_startup and reaches G_LOCK.
Startup_Call(t) ==
  /\ pc[t] = "idle"
  /\ Goto(t, "st_lock")
  /\ ret' = [ret EXCEPT ![t] = NULL]
  /\ late' = [late EXCEPT ![t] = started]
  /\ UNCHANGED <<lock, initialized, result, arg, sw, cancelled, watched,
                 missing, event_cb, missing_cb, calls, cancel_ret,
                 reappeared, started, delivered>>
  /\ UNCHANGED transVars

\* G_LOCK (inotify_lock) in _ih_startup.
Startup_Lock(t) ==
  /\ pc[t] = "st_lock"
  /\ G_LOCK(t)
  /\ Goto(t, "st_check")
  /\ UNCHANGED <<initialized, result, arg, ret, late, sw, cancelled, 
                 watched, missing, event_cb, missing_cb, calls,
                 cancel_ret, reappeared, started, delivered>>
  /\ UNCHANGED transVars

\* if (initialized == TRUE) { G_UNLOCK (inotify_lock); ...
Startup_Cached(t) ==
  /\ pc[t] = "st_check"
  /\ initialized = TRUE
  /\ G_UNLOCK(t)
  /\ Goto(t, "st_cached_ret")
  /\ UNCHANGED <<initialized, result, arg, ret, late, sw, cancelled, 
                 watched, missing, event_cb, missing_cb, calls,
                 cancel_ret, reappeared, started, delivered>>
  /\ UNCHANGED transVars

\* ... return result; } with the lock released: result is read here.
Startup_Cached_Return(t) ==
  /\ pc[t] = "st_cached_ret"
  /\ Return(t, result)
  /\ started' = (started \/ result)
  /\ UNCHANGED <<lock, initialized, result, cancelled, watched,
                 missing, event_cb, missing_cb, calls, cancel_ret,
                 reappeared, delivered>>
  /\ UNCHANGED transVars

\* _ih_startup with `initialized = TRUE' set before the result of _ip_startup
\* is looked at.
Startup_IpStartup_Early(t) ==
  /\ pc[t] = "st_check"
  /\ initialized # TRUE
  /\ \E ok \in BOOLEAN :
       /\ ok \/ calls.ip_startup_fail < MaxFail
       /\ ip_startup("ih_event_callback", ok)
       /\ result' = ok
  /\ initialized' = TRUE
  /\ Goto(t, "st_started")
  /\ UNCHANGED <<lock, arg, ret, late, sw, cancelled, watched, missing,
                 missing_cb, cancel_ret, reappeared, started, delivered>>
  /\ UNCHANGED transVars

\* result = _ip_startup (ih_event_callback);
Startup_IpStartup(t) ==
  /\ pc[t] = "st_check"
  /\ initialized # TRUE
  /\ \E ok \in BOOLEAN :
       /\ ok \/ calls.ip_startup_fail < MaxFail
       /\ ip_startup("ih_event_callback", ok)
       /\ result' = ok
  /\ Goto(t, "st_started")
  /\ UNCHANGED <<lock, initialized, arg, ret, late, sw, cancelled, 
                 watched, missing, missing_cb, cancel_ret, reappeared,
                 started, delivered>>
  /\ UNCHANGED transVars

\* The failure path without its G_UNLOCK.
Startup_Fail_KeepsLock(t) ==
  /\ pc[t] = "st_started"
  /\ ~result
  /\ Goto(t, "st_fail_ret")
  /\ UNCHANGED <<lock, initialized, result, arg, ret, late, sw, cancelled, 
                 watched, missing, event_cb, missing_cb, calls,
                 cancel_ret, reappeared, started, delivered>>
  /\ UNCHANGED transVars

\* if (!result) { G_UNLOCK (inotify_lock); ...
Startup_Fail(t) ==
  /\ pc[t] = "st_started"
  /\ ~result
  /\ G_UNLOCK(t)
  /\ Goto(t, "st_fail_ret")
  /\ UNCHANGED <<initialized, result, arg, ret, late, sw, cancelled, 
                 watched, missing, event_cb, missing_cb, calls,
                 cancel_ret, reappeared, started, delivered>>
  /\ UNCHANGED transVars

\* ... return FALSE; } with the lock released.
Startup_Fail_Return(t) ==
  /\ pc[t] = "st_fail_ret"
  /\ Return(t, FALSE)
  /\ UNCHANGED <<lock, initialized, result, cancelled, watched,
                 missing, event_cb, missing_cb, calls, cancel_ret,
                 reappeared, started, delivered>>
  /\ UNCHANGED transVars

\* _im_startup (ih_not_missing_callback); initialized = TRUE;
Startup_ImStartup(t) ==
  /\ pc[t] = "st_started"
  /\ result
  /\ im_startup("ih_not_missing_callback")
  /\ initialized' = TRUE
  /\ Goto(t, "st_unlock")
  /\ UNCHANGED <<lock, result, arg, ret, late, sw, cancelled, watched,
                 missing, event_cb, cancel_ret, reappeared, started,
                 delivered>>
  /\ UNCHANGED transVars

\* G_UNLOCK (inotify_lock); at the end of _ih_startup.
Startup_Unlock(t) ==
  /\ pc[t] = "st_unlock"
  /\ G_UNLOCK(t)
  /\ Goto(t, "st_ret")
  /\ UNCHANGED <<initialized, result, arg, ret, late, sw, cancelled, 
                 watched, missing, event_cb, missing_cb, calls,
                 cancel_ret, reappeared, started, delivered>>
  /\ UNCHANGED transVars

\* return TRUE; with the lock released.
Startup_Return(t) ==
  /\ pc[t] = "st_ret"
  /\ Return(t, TRUE)
  /\ started' = TRUE
  /\ UNCHANGED <<lock, initialized, result, cancelled, watched,
                 missing, event_cb, missing_cb, calls, cancel_ret,
                 reappeared, delivered>>
  /\ UNCHANGED transVars

(***************************************************************************)
(* _ih_sub_add                                                             *)
(***************************************************************************)

\* A consumer thread enters _ih_sub_add (sub) and reaches G_LOCK.  The
\* function takes any subscription at any time and any number of times: new,
\* added before, cancelled, before or after _ih_startup.
Add_Call(t, s) ==
  /\ pc[t] = "idle"
  /\ Goto(t, "add_lock")
  /\ arg' = [arg EXCEPT ![t] = s]
  /\ ret' = [ret EXCEPT ![t] = NULL]
  /\ late' = [late EXCEPT ![t] = FALSE]
  /\ UNCHANGED <<lock, initialized, result, sw, cancelled, watched,
                 missing, event_cb, missing_cb, calls, cancel_ret,
                 reappeared, started, delivered>>
  /\ UNCHANGED transVars

\* G_LOCK (inotify_lock) in _ih_sub_add.
Add_Lock(t) ==
  /\ pc[t] = "add_lock"
  /\ G_LOCK(t)
  /\ Goto(t, "add_watch")
  /\ UNCHANGED <<initialized, result, arg, ret, late, sw, cancelled, 
                 watched, missing, event_cb, missing_cb, calls,
                 cancel_ret, reappeared, started, delivered>>
  /\ UNCHANGED transVars

\* if (!_ip_start_watching (sub)) _im_add (sub);
Add_Watch(t) ==
  /\ pc[t] = "add_watch"
  /\ \E ok \in BOOLEAN :
       /\ sw' = [sw EXCEPT ![t] = ok]
       /\ ip_start_watching(arg[t], ok)
       /\ IF ~ok THEN im_add(arg[t]) ELSE UNCHANGED missing
  /\ Goto(t, "add_unlock")
  /\ UNCHANGED <<lock, initialized, result, arg, ret, late, cancelled, event_cb, missing_cb, calls, cancel_ret, reappeared,
                 started, delivered>>
  /\ UNCHANGED transVars

\* G_UNLOCK (inotify_lock); at the end of _ih_sub_add.
Add_Unlock(t) ==
  /\ pc[t] = "add_unlock"
  /\ G_UNLOCK(t)
  /\ Goto(t, "add_ret")
  /\ UNCHANGED <<initialized, result, arg, ret, late, sw, cancelled, 
                 watched, missing, event_cb, missing_cb, calls,
                 cancel_ret, reappeared, started, delivered>>
  /\ UNCHANGED transVars

\* return TRUE; with the lock released.
Add_Return(t) ==
  /\ pc[t] = "add_ret"
  /\ Return(t, TRUE)
  /\ UNCHANGED <<lock, initialized, result, cancelled, watched,
                 missing, event_cb, missing_cb, calls, cancel_ret,
                 reappeared, started, delivered>>
  /\ UNCHANGED transVars

(***************************************************************************)
(* _ih_sub_cancel                                                          *)
(***************************************************************************)

\* A consumer thread enters _ih_sub_cancel (sub) and reaches G_LOCK.  The
\* function takes any subscription at any time, added or not.
Cancel_Call(t, s) ==
  /\ pc[t] = "idle"
  /\ Goto(t, "ca_lock")
  /\ arg' = [arg EXCEPT ![t] = s]
  /\ ret' = [ret EXCEPT ![t] = NULL]
  /\ late' = [late EXCEPT ![t] = FALSE]
  /\ UNCHANGED <<lock, initialized, result, sw, cancelled, watched,
                 missing, event_cb, missing_cb, calls, cancel_ret,
                 reappeared, started, delivered>>
  /\ UNCHANGED transVars

\* G_LOCK (inotify_lock) in _ih_sub_cancel.
Cancel_Lock(t) ==
  /\ pc[t] = "ca_lock"
  /\ G_LOCK(t)
  /\ Goto(t, "ca_check")
  /\ UNCHANGED <<initialized, result, arg, ret, late, sw, cancelled, 
                 watched, missing, event_cb, missing_cb, calls,
                 cancel_ret, reappeared, started, delivered>>
  /\ UNCHANGED transVars

\* _ih_sub_cancel without the test of sub->cancelled.
Cancel_Body_Unguarded(t) ==
  /\ pc[t] = "ca_check"
  /\ LET s == arg[t] IN
       /\ sw' = [sw EXCEPT ![t] = TRUE]
       /\ cancelled' = [cancelled EXCEPT ![s] = TRUE]
       /\ im_rm(s)
       /\ ip_stop_watching(s)
       /\ calls' = [calls EXCEPT !.im_rm[s] = @ + 1,
                                 !.ip_stop_watching[s] = @ + 1]
  /\ Goto(t, "ca_unlock")
  /\ UNCHANGED <<lock, initialized, result, arg, ret, late, event_cb,
                 missing_cb, cancel_ret, reappeared, started, delivered>>
  /\ UNCHANGED transVars

\* if (!sub->cancelled) { sub->cancelled = TRUE; _im_rm (sub); _ip_stop_watching (sub); }
Cancel_Body(t) ==
  /\ pc[t] = "ca_check"
  /\ LET s == arg[t] IN
       /\ sw' = [sw EXCEPT ![t] = ~cancelled[s]]
       /\ IF ~cancelled[s]
          THEN /\ cancelled' = [cancelled EXCEPT ![s] = TRUE]
               /\ im_rm(s)
               /\ ip_stop_watching(s)
               /\ calls' = [calls EXCEPT !.im_rm[s] = @ + 1,
                                         !.ip_stop_watching[s] = @ + 1]
          ELSE UNCHANGED <<cancelled, missing, watched, calls>>
  /\ Goto(t, "ca_unlock")
  /\ UNCHANGED <<lock, initialized, result, arg, ret, late, event_cb,
                 missing_cb, cancel_ret, reappeared, started, delivered>>
  /\ UNCHANGED transVars

\* G_UNLOCK (inotify_lock); at the end of _ih_sub_cancel.
Cancel_Unlock(t) ==
  /\ pc[t] = "ca_unlock"
  /\ G_UNLOCK(t)
  /\ Goto(t, "ca_ret")
  /\ UNCHANGED <<initialized, result, arg, ret, late, sw, cancelled, 
                 watched, missing, event_cb, missing_cb, calls,
                 cancel_ret, reappeared, started, delivered>>
  /\ UNCHANGED transVars

\* return TRUE; with the lock released.
Cancel_Return(t) ==
  /\ pc[t] = "ca_ret"
  /\ Return(t, TRUE)
  /\ cancel_ret' = [cancel_ret EXCEPT ![arg[t]] = TRUE]
  /\ UNCHANGED <<lock, initialized, result, cancelled, watched,
                 missing, event_cb, missing_cb, calls, reappeared, started,
                 delivered>>
  /\ UNCHANGED transVars

(***************************************************************************)
(* Raw events and the two delivering threads.                              *)
(***************************************************************************)

\* ik_event_t: wd, mask, name (or NULL), pair (or NULL), timestamp.
RawEvent(wd, mask, name, pair, timestamp) ==
  [wd |-> wd, mask |-> mask, name |-> name, pair |-> pair, timestamp |-> timestamp]

\* The event times the model uses.
Timestamps == {11, 12}

\* The raw events the reader delivers in Spec: the creation of "a" in the
\* watched directory (SpecT translates every kind of event).
ReaderEvents(wd) ==
  {RawEvent(wd, IN_CREATE, Ptr("a"), NULL, 11)}

\* The log entries for the sink calls of one callback made by thread t for
\* subscription s: each records who called and who held inotify_lock at the
\* call (holder).
LogEntries(outcome, t, s, holder) ==
  [i \in 1 .. Len(outcome.sinkcalls) |->
     [call |-> outcome.sinkcalls[i], by |-> t, holder |-> holder]]

\* inotify-kernel.c takes the lock when it reads events from the kernel.
Reader_Lock ==
  /\ pc[Reader] = "idle"
  /\ event_cb # NULL
  /\ G_LOCK(Reader)
  /\ Goto(Reader, "k_events")
  /\ UNCHANGED <<initialized, result, arg, ret, late, sw, cancelled, 
                 watched, missing, event_cb, missing_cb, calls,
                 cancel_ret, reappeared, started, delivered>>
  /\ UNCHANGED transVars

\* The reader's dispatch with the lock released around the callback: the sink
\* is called with nobody holding inotify_lock.
Reader_Dispatch_Unlocked(e, s) ==
  /\ pc[Reader] = "k_events"
  /\ s \in ip_subs_for_wd(e.wd)
  /\ Len(delivered) < MaxDeliver
  /\ \E ub \in {"text", "crash"} :
       delivered' = delivered \o
         LogEntries(ih_event_callback(e, Sub(s), FALSE, WatchTable, ub), Reader, s,
                    NoThread)
  /\ UNCHANGED <<lock, initialized, result, pc, arg, ret, late, sw, cancelled,
                 watched, missing, event_cb, missing_cb, calls,
                 cancel_ret, reappeared, started>>
  /\ UNCHANGED transVars

\* The reader processes one event for one subscription watched on the event's
\* handle: event_callback (event, sub, FALSE), which is ih_event_callback.
Reader_Dispatch(e, s) ==
  /\ pc[Reader] = "k_events"
  /\ s \in ip_subs_for_wd(e.wd)
  /\ Len(delivered) < MaxDeliver
  /\ \E ub \in {"text", "crash"} :
       delivered' = delivered \o
         LogEntries(ih_event_callback(e, Sub(s), FALSE, WatchTable, ub), Reader, s,
                    lock)
  /\ UNCHANGED <<lock, initialized, result, pc, arg, ret, late, sw, cancelled,
                 watched, missing, event_cb, missing_cb, calls,
                 cancel_ret, reappeared, started>>
  /\ UNCHANGED transVars

\* The reader is done with the events it read and releases the lock.
Reader_Unlock ==
  /\ pc[Reader] = "k_events"
  /\ G_UNLOCK(Reader)
  /\ Goto(Reader, "idle")
  /\ UNCHANGED <<initialized, result, arg, ret, late, sw, cancelled, 
                 watched, missing, event_cb, missing_cb, calls,
                 cancel_ret, reappeared, started, delivered>>
  /\ UNCHANGED transVars

\* inotify-missing.c takes the lock when it is scanning the missing list.
Scanner_Lock ==
  /\ pc[Scanner] = "idle"
  /\ missing_cb # NULL
  /\ G_LOCK(Scanner)
  /\ Goto(Scanner, "m_scan")
  /\ UNCHANGED <<initialized, result, arg, ret, late, sw, cancelled, 
                 watched, missing, event_cb, missing_cb, calls,
                 cancel_ret, reappeared, started, delivered>>
  /\ UNCHANGED transVars

\* The scan finds a missing subscription whose directory can now be watched
\* (_ip_start_watching returns TRUE): the subscription becomes watched and
\* leaves the missing list.
Scanner_Found(s) ==
  /\ pc[Scanner] = "m_scan"
  /\ s \in missing
  /\ Len(delivered) < MaxDeliver
  /\ ip_start_watching(s, TRUE)
  /\ missing' = missing \ {s}
  /\ reappeared' = [reappeared EXCEPT ![s] = @ + 1]
  /\ arg' = [arg EXCEPT ![Scanner] = s]
  /\ Goto(Scanner, "m_notify")
  /\ UNCHANGED <<lock, initialized, result, ret, late, sw, cancelled, event_cb, missing_cb, calls, cancel_ret, started,
                 delivered>>
  /\ UNCHANGED transVars

\* The scan then calls missing_cb (sub), which is ih_not_missing_callback.
Scanner_Notify ==
  /\ pc[Scanner] = "m_notify"
  /\ delivered' = delivered \o
       LogEntries(ih_not_missing_callback(Sub(arg[Scanner]), 12), Scanner,
                  arg[Scanner], lock)
  /\ Goto(Scanner, "m_scan")
  /\ arg' = [arg EXCEPT ![Scanner] = NoSub]
  /\ UNCHANGED <<lock, initialized, result, ret, late, sw, cancelled,
                 watched, missing, event_cb, missing_cb, calls,
                 cancel_ret, reappeared, started>>
  /\ UNCHANGED transVars

\* The scan is over and the lock is released.
Scanner_Unlock ==
  /\ pc[Scanner] = "m_scan"
  /\ G_UNLOCK(Scanner)
  /\ Goto(Scanner, "idle")
  /\ UNCHANGED <<initialized, result, arg, ret, late, sw, cancelled, 
                 watched, missing, event_cb, missing_cb, calls,
                 cancel_ret, reappeared, started, delivered>>
  /\ UNCHANGED transVars

(***************************************************************************)
(* Spec: the lifecycle and the lock.                                       *)
(***************************************************************************)

\* The translator's variables while Spec runs: no event is under translation.
TransIdle ==
  /\ tev = NULL
  /\ tsub = NULL
  /\ tfile = FALSE
  /\ twd = NULL
  /\ tpc = "off"
  /\ tout = NULL

\* The state the C runtime starts in: statics FALSE, the lock free, no
\* subscription made, nothing registered.
LifeInit ==
  /\ lock = NoThread
  /\ initialized = FALSE
  /\ result = FALSE
  /\ pc = [t \in Threads |-> "idle"]
  /\ arg = [t \in Threads |-> NoSub]
  /\ ret = [t \in Threads |-> NULL]
  /\ late = [t \in Threads |-> FALSE]
  /\ sw = [t \in Threads |-> FALSE]
  /\ cancelled = [s \in Subs |-> FALSE]
  /\ watched = {}
  /\ missing = {}
  /\ event_cb = NULL
  /\ missing_cb = NULL
  /\ calls = [ip_startup |-> 0, ip_startup_fail |-> 0, im_startup |-> 0,
              im_rm |-> [s \in Subs |-> 0],
              ip_stop_watching |-> [s \in Subs |-> 0]]
  /\ cancel_ret = [s \in Subs |-> FALSE]
  /\ reappeared = [s \in Subs |-> 0]
  /\ started = FALSE
  /\ delivered = <<>>

Init ==
  /\ LifeInit
  /\ TransIdle

Next ==
  \/ \E t \in Consumers : Startup_Call(t)
  \/ \E t \in Consumers : Startup_Lock(t)
  \/ \E t \in Consumers : Startup_Cached(t)
  \/ \E t \in Consumers : Startup_Cached_Return(t)
  \/ \E t \in Consumers : Startup_IpStartup(t)
  \/ \E t \in Consumers : Startup_Fail(t)
  \/ \E t \in Consumers : Startup_Fail_Return(t)
  \/ \E t \in Consumers : Startup_ImStartup(t)
  \/ \E t \in Consumers : Startup_Unlock(t)
  \/ \E t \in Consumers : Startup_Return(t)
  \/ \E t \in Consumers, s \in Subs : Add_Call(t, s)
  \/ \E t \in Consumers : Add_Lock(t)
  \/ \E t \in Consumers : Add_Watch(t)
  \/ \E t \in Consumers : Add_Unlock(t)
  \/ \E t \in Consumers : Add_Return(t)
  \/ \E t \in Consumers, s \in Subs : Cancel_Call(t, s)
  \/ \E t \in Consumers : Cancel_Lock(t)
  \/ \E t \in Consumers : Cancel_Body(t)
  \/ \E t \in Consumers : Cancel_Unlock(t)
  \/ \E t \in Consumers : Cancel_Return(t)
  \/ Reader_Lock
  \/ \E w \in WDs : \E e \in ReaderEvents(w) : \E s \in Subs : Reader_Dispatch(e, s)
  \/ Reader_Unlock
  \/ Scanner_Lock
  \/ \E s \in Subs : Scanner_Found(s)
  \/ Scanner_Notify
  \/ Scanner_Unlock

Spec == Init /\ [][Next]_vars

(***************************************************************************)
(* SpecT: the translator on one raw event.                                 *)
(***************************************************************************)

\* The single-concern masks of the inotify vocabulary.
SingleBits ==
  {IN_ACCESS, IN_MODIFY, IN_ATTRIB, IN_CLOSE_WRITE, IN_CLOSE_NOWRITE, IN_OPEN,
   IN_MOVED_FROM, IN_MOVED_TO, IN_CREATE, IN_DELETE, IN_DELETE_SELF,
   IN_MOVE_SELF, IN_UNMOUNT, IN_Q_OVERFLOW, IN_IGNORED}

\* The masks translated: every single bit with and without IN_ISDIR, no bit,
\* IN_ISDIR alone, a bit outside the vocabulary, and combinations of bits.
TMasks ==
  SingleBits \cup {BitOr(b, IN_ISDIR) : b \in SingleBits}
    \cup {0, IN_ISDIR, 4096, IN_MOVE, BitOr(IN_MODIFY, IN_ATTRIB),
          BitOr(IN_MOVED_TO, IN_CREATE), BitOr(IN_MOVED_FROM, IN_DELETE)}

TNames == {NULL, Ptr("a"), Ptr("foo.txt")}

\* The paired events: the other half of a move, on either handle, named or not.
TPairs ==
  {NULL} \cup
  {Ptr(RawEvent(w, m, n, NULL, 11)) :
     w \in WDs, m \in {IN_MOVED_FROM, IN_MOVED_TO}, n \in {NULL, Ptr("b")}}

TEvents ==
  {RawEvent(w, m, n, p, ts) :
     w \in WDs, m \in TMasks, n \in TNames, p \in TPairs, ts \in Timestamps}

\* The watch tables: each handle is registered with its directory, or absent.
TTables ==
  {[w \in WDs |-> IF w \in reg THEN Ptr(CHOOSE d \in Dirs : WdOf(d) = w) ELSE NULL] :
     reg \in SUBSET WDs}

InitT ==
  /\ LifeInit
  /\ tev \in TEvents
  /\ tsub \in Subs
  /\ tfile \in BOOLEAN
  /\ twd \in TTables
  /\ tpc = "ready"
  /\ tout = NULL

\* The event is handed to ih_event_callback (event, sub, file_event).
Translate ==
  /\ tpc = "ready"
  /\ \E ub \in {"text", "crash"} :
       tout' = ih_event_callback(tev, Sub(tsub), tfile, twd, ub)
  /\ tpc' = "done"
  /\ UNCHANGED <<tev, tsub, tfile, twd>>
  /\ UNCHANGED lifeVars

NextT == Translate

SpecT == InitT /\ [][NextT]_vars

(***************************************************************************)
(* Properties of _ih_startup, _ih_sub_add and _ih_sub_cancel (Spec).       *)
(***************************************************************************)

\* The successful calls of _ip_startup so far.
IpStartupOk == calls.ip_startup - calls.ip_startup_fail

\* The step of thread t that returns from its call.
CallReturn(t) == pc[t] # "idle" /\ pc'[t] = "idle"

\* C1: however many threads call _ih_startup, at most one bring-up succeeds and
\* _im_startup runs at most once; once initialized both have run exactly once
\* (and _ip_startup exactly once in total when it never failed); a call issued
\* after a successful call returned never reaches _ip_startup or _im_startup,
\* no step it takes calls either of them, and it returns TRUE.
C1_StartupOnce ==
  /\ [](/\ IpStartupOk <= 1
        /\ calls.im_startup <= 1
        /\ initialized => (IpStartupOk = 1 /\ calls.im_startup = 1 /\ result)
        /\ (initialized /\ calls.ip_startup_fail = 0) => calls.ip_startup = 1
        /\ started => initialized
        /\ \A t \in Consumers :
             late[t] => pc[t] \in {"st_lock", "st_check", "st_cached_ret"})
  /\ [][\A t \in Consumers :
          (late[t] /\ pc'[t] # pc[t]) =>
            /\ calls'.ip_startup = calls.ip_startup
            /\ calls'.im_startup = calls.im_startup
            /\ CallReturn(t) => ret'[t] = Ptr(TRUE)
      ]_vars

\* A call of _ih_startup issued after it had succeeded has released the lock
\* on the cached path and is about to return result, which is TRUE; the other
\* thread waits at G_LOCK in such a call; the bring-up ran once.
C1_Witness ==
  \E t, u \in Consumers :
    /\ t # u
    /\ late[t] /\ pc[t] = "st_cached_ret" /\ result
    /\ late[u] /\ pc[u] = "st_lock"
    /\ calls.ip_startup = 1 /\ calls.im_startup = 1

\* The step of thread t through G_UNLOCK on the `if (!result)' path.
FailRelease(t) == pc[t] = "st_started" /\ ~result /\ pc'[t] # pc[t]

\* The step of thread t through `return FALSE' on the `if (!result)' path.
FailReturn(t) == pc[t] = "st_fail_ret" /\ pc'[t] # pc[t]

\* The step of thread t that leaves the `if (initialized == TRUE)' test with
\* initialized unset.
UninitializedCheck(t) == pc[t] = "st_check" /\ initialized # TRUE /\ pc'[t] # pc[t]

\* C2: when _ip_startup fails, _ih_startup releases the lock with initialized
\* still unset, _im_startup not called and no reappearance callback
\* registered, and then returns FALSE, its return changing none of these;
\* and a call that finds initialized unset calls _ip_startup again.
C2_FailureLeavesNothing ==
  [][ /\ \A t \in Consumers :
           FailRelease(t) =>
             /\ pc'[t] = "st_fail_ret"
             /\ lock = t /\ lock' = NoThread
             /\ initialized' = FALSE
             /\ calls'.im_startup = 0
             /\ missing_cb' = NULL
             /\ started' = FALSE
      /\ \A t \in Consumers :
           FailReturn(t) =>
             /\ pc'[t] = "idle"
             /\ ret'[t] = Ptr(FALSE)
             /\ lock # t
             /\ UNCHANGED <<lock, initialized, result, calls, missing_cb, event_cb>>
      /\ \A t \in Consumers :
           UninitializedCheck(t) => calls'.ip_startup = calls.ip_startup + 1
    ]_vars

\* A bring-up failed, its caller got FALSE, and a later call has called
\* _ip_startup again, this time with success.
C2_Witness ==
  \E t, u \in Consumers :
    /\ t # u
    /\ pc[t] = "idle" /\ ret[t] = Ptr(FALSE)
    /\ calls.ip_startup_fail = 1 /\ calls.ip_startup = 2
    /\ pc[u] = "st_started" /\ result /\ ~initialized

\* The step of thread t through G_UNLOCK at the end of _ih_sub_add.
AddRelease(t) == pc[t] = "add_unlock" /\ pc'[t] # pc[t]

\* The step of thread t that returns from _ih_sub_add.
AddReturn(t) == pc[t] = "add_ret" /\ pc'[t] = "idle"

\* C3: _ih_sub_add (sub) has put sub in exactly one registry when it is done
\* with it (it releases the lock to return): in the watched registry and not
\* in the missing list if _ip_start_watching returned TRUE, in the missing
\* list and not in the watched registry otherwise; the call returns TRUE.
C3_AddExactlyOne ==
  [][ \A t \in Consumers :
        /\ AddRelease(t) =>
             /\ (arg[t] \in watched') # (arg[t] \in missing')
             /\ (arg[t] \in watched') = sw[t]
        /\ AddReturn(t) => ret'[t] = Ptr(TRUE)
    ]_vars

\* The step of thread t through the body of _ih_sub_cancel when the
\* subscription is already cancelled.
CancelAgain(t) == pc[t] = "ca_check" /\ cancelled[arg[t]] /\ pc'[t] # pc[t]

\* The step of thread t that returns from _ih_sub_cancel.
CancelReturn(t) == pc[t] = "ca_ret" /\ pc'[t] = "idle"

\* C4: a cancel of an already cancelled subscription changes neither the flag,
\* the registries nor the call counts; _im_rm and _ip_stop_watching run at
\* most once per subscription, exactly when the flag is set; the flag is never
\* cleared; every cancel returns TRUE.
C4_CancelIdempotent ==
  [][ /\ \A s \in Subs :
           /\ cancelled[s] => cancelled'[s]
           /\ calls'.im_rm[s] = (IF cancelled'[s] THEN 1 ELSE 0)
           /\ calls'.ip_stop_watching[s] = (IF cancelled'[s] THEN 1 ELSE 0)
      /\ \A t \in Consumers :
           CancelAgain(t) => UNCHANGED <<cancelled, watched, missing, calls>>
      /\ \A t \in Consumers : CancelReturn(t) => ret'[t] = Ptr(TRUE)
    ]_vars

\* A cancel of a subscription went through the body after an earlier cancel
\* of the same subscription had returned.
C4_Witness ==
  \E t \in Consumers :
    /\ pc[t] = "ca_unlock"
    /\ cancel_ret[arg[t]]
    /\ calls.im_rm[arg[t]] = 1

(***************************************************************************)
(* Properties of event delivery under the lock (Spec).                     *)
(***************************************************************************)

\* The subscription a logged sink call was made for.
EntrySub(entry) == entry.call.user_data

\* C5: no sink call is made for a subscription after an _ih_sub_cancel of it
\* has returned, neither by ih_event_callback nor by ih_not_missing_callback:
\* no step appends to the log a call for a subscription whose cancel has
\* returned.
C5_NoDeliveryAfterCancel ==
  [][\A i \in DOMAIN delivered' :
       i > Len(delivered) => ~cancel_ret[EntrySub(delivered'[i])]
    ]_vars

\* The statements at which a thread is between G_LOCK and G_UNLOCK.
LockedPCs ==
  {"st_check", "st_started", "st_unlock", "add_watch", "add_unlock",
   "ca_check", "ca_unlock", "k_events", "m_scan", "m_notify"}

InOperation(t) == pc[t] \in LockedPCs

\* C6: at most one thread is inside an operation of the core (startup, add,
\* cancel, event processing, missing scan) and that thread holds inotify_lock;
\* so a cancel is never inside its body while the reader or the scanner is
\* delivering, and an add never while a cancel.
C6_OneOperationAtATime ==
  /\ \A t, u \in Threads : (InOperation(t) /\ InOperation(u)) => t = u
  /\ \A t \in Threads : InOperation(t) <=> lock = t

\* The reader is processing events for a watched subscription while a cancel
\* of that subscription and an add wait at the lock.
C6_Witness ==
  \E t, u \in Consumers :
    /\ pc[Reader] = "k_events"
    /\ pc[t] = "ca_lock" /\ arg[t] \in watched
    /\ pc[u] = "add_lock"

\* C7 as stated: at every call of the consumer sink nobody holds inotify_lock.
C7_SinkCalledUnlocked ==
  \A i \in DOMAIN delivered : delivered[i].holder = NoThread

\* C7 amended: every call of the consumer sink is made by the reader or the
\* scanner while that same thread holds inotify_lock (the callbacks neither
\* take nor release it), and no consumer thread holds the lock outside the
\* one call of startup, add or cancel it is in.
C7_SinkCalledByLockHolder ==
  /\ \A i \in DOMAIN delivered :
       /\ delivered[i].by \in {Reader, Scanner}
       /\ delivered[i].holder = delivered[i].by
  /\ \A t \in Consumers : pc[t] = "idle" => lock # t

\* The sink has been called from both callbacks.
C7_Witness ==
  /\ \E i \in DOMAIN delivered : delivered[i].by = Reader
  /\ \E i \in DOMAIN delivered : delivered[i].by = Scanner

\* The sink calls the scanner made for subscription s.
Synthetic(s) ==
  {i \in DOMAIN delivered : delivered[i].by = Scanner /\ EntrySub(delivered[i]) = s}

\* The reappearances of s whose notification is still to be made.
PendingNotify(s) ==
  IF pc[Scanner] = "m_notify" /\ arg[Scanner] = s THEN 1 ELSE 0

\* C8: each reappearance of a missing subscription has made exactly one sink
\* call, of kind created for sub->filename with rename_to and other NULL; and
\* from the reappearance to that call nothing else is delivered: the step
\* taken while the notification is pending is the notification itself and
\* appends that one call, so every real event delivered after the
\* reappearance comes after the created event.
C8_ReappearanceCreatedFirst ==
  /\ [](\A s \in Subs :
         /\ Cardinality(Synthetic(s)) + PendingNotify(s) = reappeared[s]
         /\ \A i \in Synthetic(s) :
              delivered[i].call =
                SinkCall(s, G_FILE_MONITOR_EVENT_CREATED, SubFilename(s), NULL, NULL,
                         delivered[i].call.event_time))
  /\ [][\A s \in Subs :
         PendingNotify(s) = 1 =>
           \/ delivered' = delivered
           \/ /\ Len(delivered') = Len(delivered) + 1
              /\ delivered'[Len(delivered')].by = Scanner
              /\ EntrySub(delivered'[Len(delivered')]) = s
              /\ PendingNotify(s)' = 0
      ]_vars

\* A subscription reappeared, its created event was delivered, and then a
\* kernel event for it.
C8_Witness ==
  \E s \in Subs :
    /\ reappeared[s] = 1
    /\ Len(delivered) >= 2
    /\ delivered[1].by = Scanner /\ EntrySub(delivered[1]) = s
    /\ delivered[2].by = Reader /\ EntrySub(delivered[2]) = s

(***************************************************************************)
(* Properties of the translation of move events (SpecT).                   *)
(***************************************************************************)

\* The event under translation is of the move family: IN_MOVED_FROM or
\* IN_MOVED_TO is in its mask.
MoveFamily == BitAnd(tev.mask, IN_MOVE) # 0

\* The translation has run on an event the reader may deliver (not a file event).
Translated == tpc = "done" /\ ~tfile

\* C9: a move event whose pair is on the same handle is delivered as renamed
\* with child the event's name, rename_to the pair's name and other NULL,
\* whichever move bit is set.
C9_SameHandleIsRename ==
  (Translated /\ MoveFamily /\ tev.pair # NULL /\ Deref(tev.pair).wd = tev.wd)
    => tout = Outcome("returned",
                <<SinkCall(tsub, G_FILE_MONITOR_EVENT_RENAMED, tev.name,
                           Deref(tev.pair).name, NULL, tev.timestamp)>>)

\* An IN_MOVED_TO event "a" paired with "b" on the same handle came out as
\* renamed a -> b.
C9_Witness ==
  /\ Translated
  /\ tev.mask = IN_MOVED_TO
  /\ tev.name = Ptr("a")
  /\ tev.pair # NULL
  /\ Deref(tev.pair).wd = tev.wd
  /\ Deref(tev.pair).name = Ptr("b")
  /\ tout.sinkcalls[1].event_type = G_FILE_MONITOR_EVENT_RENAMED
  /\ tout.sinkcalls[1].child = Ptr("a")
  /\ tout.sinkcalls[1].rename_to = Ptr("b")

\* The mask of the event under translation without IN_ISDIR.
Concern == BitClear(tev.mask, IN_ISDIR)

\* The text of an optional name in a path: nothing when there is no name.
NameText(n) == IF n = NULL THEN "" ELSE Deref(n)

\* C10: a move event (IN_MOVED_FROM or IN_MOVED_TO, with or without IN_ISDIR)
\* whose pair is on a different handle that has a path is delivered as
\* moved-out or moved-in per its mask, with rename_to NULL and other the path
\* of the pair's handle, "/", and the pair's name if it has one.
C10_OtherHandleIsMove ==
  (/\ Translated
   /\ Concern \in {IN_MOVED_FROM, IN_MOVED_TO}
   /\ tev.pair # NULL
   /\ Deref(tev.pair).wd # tev.wd
   /\ twd[Deref(tev.pair).wd] # NULL)
    => tout = Outcome("returned",
                <<SinkCall(tsub,
                           IF Concern = IN_MOVED_FROM
                           THEN G_FILE_MONITOR_EVENT_MOVED_OUT
                           ELSE G_FILE_MONITOR_EVENT_MOVED_IN,
                           tev.name, NULL,
                           Ptr(Deref(twd[Deref(tev.pair).wd]) \o "/"
                                 \o NameText(Deref(tev.pair).name)),
                           tev.timestamp)>>)

\* A directory moved in on handle 7 from handle 8, the pair unnamed: other is
\* the directory of handle 8 with a trailing separator.
C10_Witness ==
  /\ Translated
  /\ tev.mask = BitOr(IN_MOVED_TO, IN_ISDIR)
  /\ tev.wd = 7
  /\ tev.pair # NULL
  /\ Deref(tev.pair).wd = 8
  /\ Deref(tev.pair).name = NULL
  /\ tout.sinkcalls # <<>>
  /\ tout.sinkcalls[1].event_type = G_FILE_MONITOR_EVENT_MOVED_IN
  /\ tout.sinkcalls[1].other = Ptr("/tmp/other/")

(***************************************************************************)
(* Properties of the translator, continued (SpecT).                        *)
(***************************************************************************)

\* C11: a move event that carries no pair is delivered in one call of the
\* sink, never as renamed, with child the event's name and both rename_to and
\* other NULL; its kind is moved-out when the mask is IN_MOVED_FROM and
\* moved-in when it is IN_MOVED_TO (with or without IN_ISDIR).
C11_UnpairedMove ==
  (Translated /\ MoveFamily /\ tev.pair = NULL)
    => /\ tout.how = "returned"
       /\ Len(tout.sinkcalls) = 1
       /\ tout.sinkcalls[1].event_type # G_FILE_MONITOR_EVENT_RENAMED
       /\ tout.sinkcalls[1].child = tev.name
       /\ tout.sinkcalls[1].rename_to = NULL
       /\ tout.sinkcalls[1].other = NULL
       /\ Concern = IN_MOVED_FROM
            => tout.sinkcalls[1].event_type = G_FILE_MONITOR_EVENT_MOVED_OUT
       /\ Concern = IN_MOVED_TO
            => tout.sinkcalls[1].event_type = G_FILE_MONITOR_EVENT_MOVED_IN

\* A file moved out of the watched directory with no pair seen: moved-out,
\* nothing in rename_to or other.
C11_Witness ==
  /\ Translated
  /\ tev.mask = IN_MOVED_FROM
  /\ tev.pair = NULL
  /\ tev.name = Ptr("a")
  /\ tout.sinkcalls # <<>>
  /\ tout.sinkcalls[1].event_type = G_FILE_MONITOR_EVENT_MOVED_OUT
  /\ tout.sinkcalls[1].rename_to = NULL
  /\ tout.sinkcalls[1].other = NULL

\* The kind of the event comes from ih_mask_to_EventFlags: the callback
\* returned and did not take the rename branch.
KindFromMask ==
  /\ Translated
  /\ tout.how = "returned"
  /\ ~(MoveFamily /\ tev.pair # NULL /\ Deref(tev.pair).wd = tev.wd)

\* The kind handed to the sink for the event under translation.
DeliveredKind == tout.sinkcalls[1].event_type

\* The table of nine masks: modify, close-write, attrib, create, the three of
\* the delete family and the two moves; -1 for every other value.
NineMaskTable(m) ==
  CASE m = IN_MODIFY -> G_FILE_MONITOR_EVENT_CHANGED
    [] m = IN_CLOSE_WRITE -> G_FILE_MONITOR_EVENT_CHANGES_DONE_HINT
    [] m = IN_ATTRIB -> G_FILE_MONITOR_EVENT_ATTRIBUTE_CHANGED
    [] m = IN_CREATE -> G_FILE_MONITOR_EVENT_CREATED
    [] m \in {IN_DELETE, IN_DELETE_SELF, IN_MOVE_SELF} -> G_FILE_MONITOR_EVENT_DELETED
    [] m = IN_MOVED_FROM -> G_FILE_MONITOR_EVENT_MOVED_OUT
    [] m = IN_MOVED_TO -> G_FILE_MONITOR_EVENT_MOVED_IN
    [] OTHER -> IgnoredEvent

\* C12 as stated: the kind is the entry of the nine-mask table for the mask
\* without IN_ISDIR, and -1 (ignored) for every value outside that table.
C12_NineMaskTable ==
  KindFromMask => DeliveredKind = NineMaskTable(Concern)

\* C12: the kind is the entry of the table for the mask without IN_ISDIR,
\* where the table is the nine masks and a tenth, IN_UNMOUNT, which yields
\* unmounted; every value outside these ten (IN_OPEN, IN_CLOSE_NOWRITE,
\* IN_ACCESS, IN_Q_OVERFLOW, IN_IGNORED, several bits, an unknown bit, no bit)
\* yields -1.
C12_TenMaskTable ==
  KindFromMask =>
    DeliveredKind = IF Concern = IN_UNMOUNT
                    THEN G_FILE_MONITOR_EVENT_UNMOUNTED
                    ELSE NineMaskTable(Concern)

\* A modification of a directory: IN_ISDIR is dropped and the kind is changed.
C12_Witness ==
  /\ KindFromMask
  /\ tev.mask = BitOr(IN_MODIFY, IN_ISDIR)
  /\ tout.sinkcalls # <<>>
  /\ DeliveredKind = G_FILE_MONITOR_EVENT_CHANGED

\* The single bits ih_mask_to_EventFlags names and answers with -1.
IgnoredBits == {IN_Q_OVERFLOW, IN_OPEN, IN_CLOSE_NOWRITE, IN_ACCESS, IN_IGNORED}

\* C13 as stated: one invocation of ih_event_callback calls the sink at most
\* once, and no call of the sink carries the ignored kind: for an ignored
\* mask the sink is not called at all.
C13_NoCallForIgnored ==
  tpc = "done" =>
    /\ Len(tout.sinkcalls) <= 1
    /\ \A i \in 1..Len(tout.sinkcalls) :
         tout.sinkcalls[i].event_type # IgnoredEvent

\* C13: one invocation of ih_event_callback calls the sink exactly once when
\* it returns and not at all when it does not return; an event outside the
\* move family whose mask is one of the ignored bits (with or without
\* IN_ISDIR) is handed to the sink too, in a call whose kind is -1.
C13_OneCallAlsoForIgnored ==
  tpc = "done" =>
    /\ tout.how = "returned" => Len(tout.sinkcalls) = 1
    /\ tout.how # "returned" => Len(tout.sinkcalls) = 0
    /\ (Translated /\ Concern \in IgnoredBits)
         => /\ tout.how = "returned"
            /\ tout.sinkcalls[1] =
                 SinkCall(tsub, IgnoredEvent, tev.name, NULL, NULL, tev.timestamp)

\* An IN_OPEN event: the sink is called once with kind -1.
C13_Witness ==
  /\ Translated
  /\ tev.mask = IN_OPEN
  /\ tev.name = Ptr("a")
  /\ Len(tout.sinkcalls) = 1
  /\ tout.sinkcalls[1].event_type = IgnoredEvent
  /\ tout.sinkcalls[1].child = Ptr("a")

\* C14: an event flagged as a file-level (hardlink) event stops
\* ih_event_callback at its assertion: the invocation ends there, whatever the
\* event is, and the sink has not been called.
C14_FileEventAsserts ==
  (tpc = "done" /\ tfile) => tout = Outcome("assert", <<>>)

\* A creation flagged as a file event: ended at the assertion, nothing
\* delivered.
C14_Witness ==
  /\ tpc = "done"
  /\ tfile
  /\ tev.mask = IN_CREATE
  /\ tev.name = Ptr("foo.txt")
  /\ tout.how = "assert"
  /\ tout.sinkcalls = <<>>

\* The move branch asks _ip_get_path_for_wd for the pair's handle and the
\* handle has no path.
PairPathMissing ==
  /\ Translated
  /\ MoveFamily
  /\ tev.pair # NULL
  /\ Deref(tev.pair).wd # tev.wd
  /\ twd[Deref(tev.pair).wd] = NULL

\* C15: when the handle an event is translated against has no registered
\* path, the translation does not return normally and the sink is not called:
\* no event built from a missing directory path is delivered.
C15_NoPathAborts ==
  PairPathMissing => (tout.how # "returned" /\ tout.sinkcalls = <<>>)

\* C16 as stated: for an event outside the move family the child handed to
\* the sink is the full path, the subscription's directory, "/", and the
\* event's name.
C16_ChildIsFullPath ==
  (Translated /\ ~MoveFamily)
    => tout.sinkcalls[1].child =
         Ptr(SubDirname(tsub) \o "/" \o NameText(tev.name))

\* C16: for an event outside the move family the child handed to the sink is
\* the event's name as the kernel gave it, relative to the watched directory
\* (NULL when the event has no name); rename_to and other are NULL, the source
\* is the subscription's user_data and the time is the event's timestamp.
C16_ChildIsEventName ==
  (Translated /\ ~MoveFamily)
    => /\ tout.how = "returned"
       /\ Len(tout.sinkcalls) = 1
       /\ tout.sinkcalls[1].user_data = tsub
       /\ tout.sinkcalls[1].child = tev.name
       /\ tout.sinkcalls[1].rename_to = NULL
       /\ tout.sinkcalls[1].other = NULL
       /\ tout.sinkcalls[1].event_time = tev.timestamp

\* {handle 7, IN_CREATE, "foo.txt"} for the subscription on "/tmp/watch":
\* created, with child "foo.txt".
C16_Witness ==
  /\ Translated
  /\ tev.wd = 7
  /\ tev.mask = IN_CREATE
  /\ tev.name = Ptr("foo.txt")
  /\ tsub = "s1"
  /\ SubDirname(tsub) = "/tmp/watch"
  /\ tout = Outcome("returned",
              <<SinkCall("s1", G_FILE_MONITOR_EVENT_CREATED, Ptr("foo.txt"),
                         NULL, NULL, tev.timestamp)>>)

\* C17 as stated: unmount, delete, delete-self and move-self are all
\* delivered as deleted, with or without IN_ISDIR.
C17_FourMasksDeleted ==
  (KindFromMask /\ Concern \in {IN_UNMOUNT, IN_DELETE, IN_DELETE_SELF, IN_MOVE_SELF})
    => DeliveredKind = G_FILE_MONITOR_EVENT_DELETED

\* C17: delete, delete-self and move-self are all delivered as deleted, and
\* unmount is delivered as a kind of its own, unmounted (each with or without
\* IN_ISDIR).
C17_ThreeDeletedOneUnmounted ==
  /\ (KindFromMask /\ Concern \in {IN_DELETE, IN_DELETE_SELF, IN_MOVE_SELF})
       => DeliveredKind = G_FILE_MONITOR_EVENT_DELETED
  /\ (KindFromMask /\ Concern = IN_UNMOUNT)
       => /\ DeliveredKind = G_FILE_MONITOR_EVENT_UNMOUNTED
          /\ DeliveredKind # G_FILE_MONITOR_EVENT_DELETED

\* The watched directory's filesystem is unmounted: the kind is unmounted.
C17_Witness ==
  /\ KindFromMask
  /\ tev.mask = IN_UNMOUNT
  /\ tev.name = NULL
  /\ tout.sinkcalls # <<>>
  /\ DeliveredKind = G_FILE_MONITOR_EVENT_UNMOUNTED

(***************************************************************************)
(* SpecFair: Spec under fair scheduling of the threads.                    *)
(***************************************************************************)

\* A consumer thread waiting in G_LOCK takes the lock.
Acquire(t) == Startup_Lock(t) \/ Add_Lock(t) \/ Cancel_Lock(t)

\* A consumer thread that is past G_LOCK executes its next statement, its
\* `return' included.
Proceed(t) ==
  \/ Startup_Cached(t)
  \/ Startup_Cached_Return(t)
  \/ Startup_IpStartup(t)
  \/ Startup_Fail(t)
  \/ Startup_Fail_Return(t)
  \/ Startup_ImStartup(t)
  \/ Startup_Unlock(t)
  \/ Startup_Return(t)
  \/ Add_Watch(t)
  \/ Add_Unlock(t)
  \/ Add_Return(t)
  \/ Cancel_Body(t)
  \/ Cancel_Unlock(t)
  \/ Cancel_Return(t)

\* Fair scheduling: a thread whose next statement can run does run it; a
\* thread waiting for the lock gets it if the lock is free again and again;
\* the event reader and the missing scan finish their processing and unlock.
Fairness ==
  /\ \A t \in Consumers : WF_vars(Proceed(t)) /\ SF_vars(Acquire(t))
  /\ WF_vars(Reader_Unlock)
  /\ WF_vars(Scanner_Notify)
  /\ WF_vars(Scanner_Unlock)

SpecFair == Spec /\ Fairness

\* The statements of a call after its G_UNLOCK: the `return'.
ReturnPCs == {"st_cached_ret", "st_fail_ret", "st_ret", "add_ret", "ca_ret"}

\* The statements at which a thread waits in G_LOCK.
LockWaitPCs == {"st_lock", "add_lock", "ca_lock"}

\* C18: on every exit path of _ih_startup, _ih_sub_add and _ih_sub_cancel the
\* `return' is reached only through a G_UNLOCK of the lock the caller holds,
\* so a thread that is returning or outside any call never holds the lock; a
\* thread leaves G_LOCK only with the lock; and under fair scheduling every
\* call, once made, returns (each thread is again and again outside any
\* call), so no thread waits at G_LOCK for ever.
C18_LockReleasedCallsReturn ==
  /\ [][\A t \in Consumers :
          /\ (pc[t] \notin ReturnPCs /\ pc'[t] \in ReturnPCs)
               => (lock = t /\ lock' = NoThread)
          /\ (pc[t] # "idle" /\ pc'[t] = "idle")
               => (pc[t] \in ReturnPCs /\ lock # t /\ lock' = lock)
          /\ (pc[t] \in LockWaitPCs /\ pc'[t] # pc[t]) => lock' = t]_vars
  /\ [](\A t \in Consumers : pc[t] \in ReturnPCs \cup {"idle"} => lock # t)
  /\ \A t \in Consumers : []<>(pc[t] = "idle")

\* The failure path of _ih_startup has returned FALSE and a second thread
\* waits in G_LOCK of _ih_startup with the lock free: the path left the
\* lock released.
C18_Witness ==
  /\ pc["t1"] = "idle"
  /\ ret["t1"] = Ptr(FALSE)
  /\ calls.ip_startup_fail > 0
  /\ lock = NoThread
  /\ pc["t2"] = "st_lock"

(***************************************************************************)
(* Properties of cancellation and the registries (Spec).                   *)
(***************************************************************************)

\* The step of thread t through the body of _ih_sub_cancel when the
\* subscription is not yet cancelled.
CancelFirst(t) == pc[t] = "ca_check" /\ ~cancelled[arg[t]] /\ pc'[t] # pc[t]

\* C19: the first cancel of a subscription calls both _im_rm and
\* _ip_stop_watching, whichever registry holds the subscription, and leaves
\* it in neither; when that cancel returns the subscription is in neither.
C19_FirstCancelRemoves ==
  [][\A t \in Consumers :
       /\ CancelFirst(t) =>
            /\ calls'.im_rm[arg[t]] = calls.im_rm[arg[t]] + 1
            /\ calls'.ip_stop_watching[arg[t]] = calls.ip_stop_watching[arg[t]] + 1
            /\ arg[t] \notin (watched' \cup missing')
       /\ (CancelReturn(t) /\ sw[t])
            => arg[t] \notin (watched' \cup missing')
    ]_vars

\* The subscription is registered: watched or on the missing list.
Registered(s) == s \in (watched \cup missing)

\* C20: whatever the calls and their interleaving, an add of a cancelled
\* subscription included, a subscription whose cancelled flag is set is in
\* neither registry.
C20_CancelledNeverRegistered ==
  \A s \in Subs : cancelled[s] => ~Registered(s)

====
